---- MODULE Spec2Model ----
(***************************************************************************)
(* Model of the evolutionary engine (services/engine-rust): the per-run    *)
(* RNG, the genome operators, RunInternal, and the run registry with the   *)
(* create / step / advance / snapshot / history operations of evolve.rs.   *)
(*                                                                         *)
(* Numbers.  An f64 is modelled as an integer (fitness values) or as an    *)
(* integer count of tenths (instruction arguments, mutation_rate, the      *)
(* unit-interval draw), plus the two special values NaN and F64MIN that    *)
(* the code compares against.  StdRng is modelled as a 16-bit linear       *)
(* congruential generator: what matters to the engine is that every draw   *)
(* is a function of the generator state and advances it.                   *)
(*                                                                         *)
(* The VM (vm.rs run_genome) is modelled one turn of its loop at a time.   *)
(* Its f64 values are decimal floating point numbers of a few digits with  *)
(* NaN and the infinities, so that 1e-13, 1e-12 and 2.0 are distinct       *)
(* values and arithmetic rounds, overflows and underflows.                 *)
(***************************************************************************)
EXTENDS Integers, Sequences, FiniteSets, TLC

(* ------------------------------ bounds -------------------------------- *)
\* number of concurrently running request tasks
NumProcs == 2
\* total work the clients ask for: a create, a step or a read counts 1,
\* advance counts its number of steps
MaxOps == 3
\* seeds a client may put in cfg.seed: 1..MaxSeed
MaxSeed == 2
\* cfg.population ranges over 2..MaxPop
MaxPop == 2
\* fitness values the scorer answers with: 1..MaxFit
MaxFit == 2
\* the scorer may answer with up to MaxExtra more values than genomes sent
MaxExtra == 1
\* advance is called with steps in 2..MaxAdvance (advance with steps = 1 is a step)
MaxAdvance == 2
\* function-level checks of apply_fitness: populations of 1..BestMaxLen genomes
BestMaxLen == 4

(* ----------------------------- f64 values ------------------------------ *)
\* NaN is a value outside the order; f64::MIN is below every other number
NaN == -(2 ^ 20)
F64MIN == 1 - (2 ^ 20)

\* f64::partial_cmp: None when either side is NaN
partial_cmp(a, b) ==
  IF a = NaN \/ b = NaN THEN "None"
  ELSE IF a = b THEN "Equal"
  ELSE IF a < b THEN "Less" ELSE "Greater"

\* the > operator on f64: false when unordered
f64_gt(a, b) == partial_cmp(a, b) = "Greater"

(* -------------------------------- RNG ---------------------------------- *)
RngMod == 2 ^ 16

\* rng.rs seeded_rng: the generator state is a function of the seed alone
seeded_rng(seed) == seed % RngMod

\* one step of the generator
rng_next(s) == (s * 25173 + 13849) % RngMod

\* rng.gen_range(0..upper): a value below upper and the advanced generator
gen_range_usize(rng, upper) ==
  LET s == rng_next(rng) IN [v |-> (s \div 64) % upper, rng |-> s]

\* rng.gen_range(min..max) on f64, in tenths: min <= v < max
gen_range_f64(rng, min, max) ==
  LET s == rng_next(rng) IN [v |-> min + ((s \div 64) % (max - min)), rng |-> s]

\* rng.gen::<f64>(): a value of [0, 1), in tenths
gen_f64(rng) ==
  LET s == rng_next(rng) IN [v |-> (s \div 64) % 10, rng |-> s]

\* rng.gen::<u64>()
gen_u64(rng) ==
  LET s == rng_next(rng) IN [v |-> s, rng |-> s]

(* ------------------------------ genome --------------------------------- *)
REGISTER_COUNT == 4
MIN_LEN == 8
MAX_LEN == 32
ABS_MAX_LEN == 64

OPS == <<"PUSH", "LOAD", "STORE", "ADD", "SUB", "MUL", "DIV", "DUP", "SWAP", "POP",
         "HALT", "NOP">>

\* Option<f64>: None is the empty sequence, Some(v) is <<v>>
None == <<>>
Some(v) == <<v>>

Instruction(op, arg) == [op |-> op, arg |-> arg]

\* genome.rs random_instruction: the op, then the argument its kind needs
random_instruction(rng) ==
  LET d == gen_range_usize(rng, Len(OPS))
      op == OPS[d.v + 1]
  IN  IF op = "PUSH"
      THEN LET a == gen_range_f64(d.rng, -100, 100)
           IN  [ins |-> Instruction(op, Some(a.v)), rng |-> a.rng]
      ELSE IF op \in {"LOAD", "STORE"}
      THEN LET a == gen_range_usize(d.rng, REGISTER_COUNT)
           IN  [ins |-> Instruction(op, Some(a.v * 10)), rng |-> a.rng]
      ELSE [ins |-> Instruction(op, None), rng |-> d.rng]

\* n random instructions drawn in order from rng
RECURSIVE random_instructions(_, _)
random_instructions(rng, n) ==
  IF n = 0 THEN [instructions |-> <<>>, rng |-> rng]
  ELSE LET i == random_instruction(rng)
           rest == random_instructions(i.rng, n - 1)
       IN  [instructions |-> <<i.ins>> \o rest.instructions, rng |-> rest.rng]

\* genome.rs random_genome: len in MIN_LEN..=MAX_LEN, then len instructions
random_genome(rng) ==
  LET l == gen_range_usize(rng, MAX_LEN - MIN_LEN + 1)
      g == random_instructions(l.rng, MIN_LEN + l.v)
  IN  [genome |-> [instructions |-> g.instructions], rng |-> g.rng]

\* a clamp that lets every value through
clamp_none(v, lo, hi) == v

\* f64::clamp
clamp(v, lo, hi) == IF v < lo THEN lo ELSE IF v > hi THEN hi ELSE v

\* Vec::insert at idx (0-based)
VecInsert(s, idx, x) == SubSeq(s, 1, idx) \o <<x>> \o SubSeq(s, idx + 1, Len(s))

\* Vec::remove at idx (0-based)
VecRemove(s, idx) == SubSeq(s, 1, idx) \o SubSeq(s, idx + 2, Len(s))

\* genome.rs point_mutate
point_mutate(genome, rng) ==
  LET d == gen_range_usize(rng, Len(genome.instructions))
      i == random_instruction(d.rng)
  IN  [genome |-> [instructions |-> [genome.instructions EXCEPT ![d.v + 1] = i.ins]],
       rng |-> i.rng]

\* indices (1-based, ascending) of the PUSH instructions
RECURSIVE push_indices(_, _)
push_indices(ins, i) ==
  IF i > Len(ins) THEN <<>>
  ELSE (IF ins[i].op = "PUSH" THEN <<i>> ELSE <<>>) \o push_indices(ins, i + 1)

\* genome.rs tweak_push
tweak_push(genome, rng) ==
  LET pi == push_indices(genome.instructions, 1)
  IN  IF pi = <<>> THEN point_mutate(genome, rng)
      ELSE LET d == gen_range_usize(rng, Len(pi))
               idx == pi[d.v + 1]
               noise == gen_range_f64(d.rng, -10, 10)
               old == genome.instructions[idx].arg
               new_val == (IF old = None THEN 0 ELSE old[1]) + noise.v
           IN  [genome |-> [instructions |->
                    [genome.instructions EXCEPT ![idx].arg = Some(clamp(new_val, -100, 100))]],
                rng |-> noise.rng]

\* genome.rs insert_instruction
insert_instruction(genome, rng) ==
  IF Len(genome.instructions) >= ABS_MAX_LEN THEN point_mutate(genome, rng)
  ELSE LET d == gen_range_usize(rng, Len(genome.instructions) + 1)
           i == random_instruction(d.rng)
       IN  [genome |-> [instructions |-> VecInsert(genome.instructions, d.v, i.ins)],
            rng |-> i.rng]

\* genome.rs delete_instruction
delete_instruction(genome, rng) ==
  IF Len(genome.instructions) <= 1 THEN [genome |-> genome, rng |-> rng]
  ELSE LET d == gen_range_usize(rng, Len(genome.instructions))
       IN  [genome |-> [instructions |-> VecRemove(genome.instructions, d.v)], rng |-> d.rng]

\* the clamp that ends mutate_genome: refill an empty genome, truncate a long one
clamp_len(m) ==
  LET filled == IF m.genome.instructions = <<>>
                THEN LET i == random_instruction(m.rng)
                     IN  [genome |-> [instructions |-> <<i.ins>>], rng |-> i.rng]
                ELSE m
  IN  IF Len(filled.genome.instructions) > ABS_MAX_LEN
      THEN [genome |-> [instructions |-> SubSeq(filled.genome.instructions, 1, ABS_MAX_LEN)],
            rng |-> filled.rng]
      ELSE filled

\* genome.rs mutate_genome
mutate_genome(genome, rng) ==
  IF genome.instructions = <<>>
  THEN LET i == random_instruction(rng)
       IN  [genome |-> [instructions |-> <<i.ins>>], rng |-> i.rng]
  ELSE LET choice == gen_range_usize(rng, 4)
       IN  clamp_len(CASE choice.v = 0 -> point_mutate(genome, choice.rng)
                       [] choice.v = 1 -> tweak_push(genome, choice.rng)
                       [] choice.v = 2 -> insert_instruction(genome, choice.rng)
                       [] OTHER -> delete_instruction(genome, choice.rng))


(* ------------------------------ RunInternal ---------------------------- *)
\* size random genomes drawn in order from rng
RECURSIVE random_population(_, _)
random_population(rng, size) ==
  IF size = 0 THEN [population |-> <<>>, rng |-> rng]
  ELSE LET g == random_genome(rng)
           rest == random_population(g.rng, size - 1)
       IN  [population |-> <<g.genome>> \o rest.population, rng |-> rest.rng]

\* RunInternal::new drawing its genomes over 0..=size
RunInternal_new_inclusive_range(cfg) ==
  LET size == IF cfg.population > 1 THEN cfg.population ELSE 1
      p == random_population(seeded_rng(cfg.seed), size + 1)
  IN  [cfg |-> cfg,
       generation |-> 0,
       population |-> p.population,
       fitness |-> <<>>,
       best_fitness |-> 0,
       best_genome |-> [instructions |-> <<>>],
       rng |-> p.rng,
       history |-> <<>>]

\* evolve.rs RunInternal::new
RunInternal_new(cfg) ==
  LET size == IF cfg.population > 1 THEN cfg.population ELSE 1
      p == random_population(seeded_rng(cfg.seed), size)
  IN  [cfg |-> cfg,
       generation |-> 0,
       population |-> p.population,
       fitness |-> <<>>,
       best_fitness |-> 0,
       best_genome |-> [instructions |-> <<>>],
       rng |-> p.rng,
       history |-> <<>>]

\* evolve.rs RunInternal::to_state
to_state(run, run_id) ==
  [run_id |-> run_id,
   generation |-> run.generation,
   best_fitness |-> run.best_fitness,
   best_genome |-> run.best_genome,
   seed |-> run.cfg.seed,
   population |-> run.cfg.population,
   generations |-> run.cfg.generations,
   mutation_rate |-> run.cfg.mutation_rate,
   task |-> run.cfg.task]

\* the comparator's verdict that makes Iterator::max_by keep the element it holds
max_by_keeps_first_on_tie(c) == c \in {"Greater", "Equal"}

\* Iterator::max_by keeps the element it holds only when it compares Greater
max_by_keeps(c) == c = "Greater"

\* the closure of best_index: partial_cmp, Equal when unordered
best_index_cmp(a, b) ==
  LET c == partial_cmp(a, b) IN IF c = "None" THEN "Equal" ELSE c

\* Iterator::max_by as a left fold: cur is the (1-based) index held so far
RECURSIVE max_by_fold(_, _, _)
max_by_fold(fitness, cur, i) ==
  IF i > Len(fitness) THEN cur
  ELSE max_by_fold(fitness,
                   IF max_by_keeps(best_index_cmp(fitness[cur], fitness[i])) THEN cur ELSE i,
                   i + 1)

\* evolve.rs best_index: Some((idx, value)) with a 0-based idx, None when empty
best_index(fitness) ==
  IF fitness = <<>> THEN None
  ELSE LET m == max_by_fold(fitness, 1, 2) IN Some([idx |-> m - 1, best |-> fitness[m]])

\* evolve.rs RunInternal::apply_fitness.  population[idx] panics when idx is out of
\* range: the assignments made before it stay, the history push is not reached.
apply_fitness(run, fitness) ==
  LET r1 == [run EXCEPT !.fitness = fitness]
      bi == best_index(fitness)
  IN  IF bi = None
      THEN [run |-> [r1 EXCEPT !.history = Append(@, <<r1.generation, r1.best_fitness>>)],
            panicked |-> FALSE]
      ELSE LET r2 == [r1 EXCEPT !.best_fitness = bi[1].best]
           IN  IF bi[1].idx >= Len(r2.population)
               THEN [run |-> r2, panicked |-> TRUE]
               ELSE LET r3 == [r2 EXCEPT !.best_genome = r2.population[bi[1].idx + 1]]
                    IN  [run |-> [r3 EXCEPT !.history =
                                     Append(@, <<r3.generation, r3.best_fitness>>)],
                         panicked |-> FALSE]

\* the loop of tournament_select: k draws left, best so far
RECURSIVE tournament_loop(_, _, _, _, _, _)
tournament_loop(len, fitness, rng, k, best_idx, best_fit) ==
  IF k = 0 THEN [idx |-> best_idx, rng |-> rng]
  ELSE LET d == gen_range_usize(rng, len)
           fit == IF d.v < Len(fitness) THEN fitness[d.v + 1] ELSE 0
       IN  IF f64_gt(fit, best_fit)
           THEN tournament_loop(len, fitness, d.rng, k - 1, d.v, fit)
           ELSE tournament_loop(len, fitness, d.rng, k - 1, best_idx, best_fit)

\* evolve.rs RunInternal::tournament_select: a 0-based index and the advanced rng
tournament_select(run, rng, k) ==
  tournament_loop(Len(run.population), run.fitness, rng, k, 0, F64MIN)

\* the while loop of next_population
RECURSIVE next_population_loop(_, _, _)
next_population_loop(run, new_pop, rng) ==
  IF Len(new_pop) >= Len(run.population) THEN [new_pop |-> new_pop, rng |-> rng]
  ELSE LET t == tournament_select(run, rng, 3)
           child == run.population[t.idx + 1]
           coin == gen_f64(t.rng)
           m == IF coin.v < run.cfg.mutation_rate
                THEN mutate_genome(child, coin.rng)
                ELSE [genome |-> child, rng |-> coin.rng]
       IN  next_population_loop(run, Append(new_pop, m.genome), m.rng)

\* evolve.rs RunInternal::next_population: the new population and the run's rng after it
next_population(run) == next_population_loop(run, <<run.best_genome>>, run.rng)

\* the digits of format!("{:016x}", v), least significant last
HexDigits == <<"0", "1", "2", "3", "4", "5", "6", "7", "8", "9", "a", "b", "c", "d", "e", "f">>

RECURSIVE format_hex(_, _)
format_hex(v, width) ==
  IF width = 0 THEN <<>>
  ELSE Append(format_hex(v \div 16, width - 1), HexDigits[(v % 16) + 1])

\* evolve.rs generate_run_id
generate_run_id(rng) ==
  LET d == gen_u64(rng) IN [run_id |-> format_hex(d.v, 16), rng |-> d.rng]


(* --------------------------- registry and tasks ------------------------ *)
VARIABLES
  runs,   \* the RunStore: run_id -> RunInternal
  lock,   \* the task holding the RunStore mutex, or NoProc
  pc,     \* where each request task stands in its handler
  loc,    \* the local variables of each request task
  ret,    \* what each task's last finished request returned
  ops,    \* work asked for so far (see MaxOps)
  arg,    \* the input of the function under check (function-level specifications)
  res     \* its result, None until it has been applied

vars == <<runs, lock, pc, loc, ret, ops, arg, res>>

Procs == 1..NumProcs
NoProc == 0

\* the RunConfig values clients send (they pass validate_run_config)
Cfgs ==
  [seed : 1..MaxSeed, population : 2..MaxPop, generations : {1},
   mutation_rate : {5}, task : {"t"}]

\* the run id create_run derives for cfg
RunIdOf(cfg) == generate_run_id(RunInternal_new(cfg).rng).run_id

\* an id no run is ever created under
MissingId == [i \in 1..16 |-> "f"]

\* the run ids clients put in a path
RunIds == {RunIdOf(c) : c \in Cfgs} \cup {MissingId}

\* the bodies a scorer can answer a request for n genomes with: any number of
\* finite values (serde_json reads no NaN and no infinity into an f64)
ScorerResponses(n) == UNION {[1..k -> 1..MaxFit] : k \in 0..(n + MaxExtra)}

NoLoc ==
  [op |-> "none", run_id |-> <<>>, run |-> None, new_population |-> <<>>,
   pop_size |-> 0, scores |-> <<>>, left |-> 0, done |-> 0, pre |-> None, points |-> None,
   start |-> None]

NoRet == [kind |-> "none", val |-> None]

\* HashMap::insert: a new entry, or the entry under that key replaced
MapInsert(m, k, v) == [r \in DOMAIN m \cup {k} |-> IF r = k THEN v ELSE m[r]]

\* a lookup that falls back to some other entry when the key is missing
HashMapGetAny(m, k) ==
  IF k \in DOMAIN m THEN Some(m[k])
  ELSE IF DOMAIN m = {} THEN None
  ELSE Some(m[CHOOSE r \in DOMAIN m : TRUE])

\* HashMap::get / get_mut: Some(entry) under that key, None when there is none
HashMapGet(m, k) == IF k \in DOMAIN m THEN Some(m[k]) ELSE None

Init ==
  /\ runs = << >>
  /\ lock = NoProc
  /\ pc = [p \in Procs |-> "idle"]
  /\ loc = [p \in Procs |-> NoLoc]
  /\ ret = [p \in Procs |-> NoRet]
  /\ ops = 0
  /\ arg = None
  /\ res = None

\* the request is over: the task's locals are gone, the client has its answer
Finish(p, kind, val) ==
  /\ pc' = [pc EXCEPT ![p] = "idle"]
  /\ loc' = [loc EXCEPT ![p] = NoLoc]
  /\ ret' = [ret EXCEPT ![p] = [kind |-> kind, val |-> val]]

\* a request arrives at an idle task
Begin(p, cost) ==
  /\ pc[p] = "idle"
  /\ ops + cost <= MaxOps
  /\ ops' = ops + cost
  /\ ret' = [ret EXCEPT ![p] = NoRet]

\* runs.lock().await returns: the mutex was free and is now held by p
Acquire(p) ==
  /\ pc[p] \in {"c_lock", "s_lock1", "s_lock2", "g_lock", "h_lock1", "h_lock2"}
  /\ lock = NoProc
  /\ lock' = p
  /\ pc' = [pc EXCEPT ![p] =
              CASE pc[p] = "c_lock" -> "c_crit"
                [] pc[p] = "s_lock1" -> "s_crit1"
                [] pc[p] = "s_lock2" -> "s_crit2"
                [] pc[p] = "g_lock" -> "g_crit"
                [] pc[p] = "h_lock1" -> "h_crit1"
                [] OTHER -> "h_crit2"]
  /\ UNCHANGED <<arg, res, runs, loc, ret, ops>>

(* create_run *)
\* create_run up to the scorer call: RunInternal::new, then the request is sent
CreateStart(p, cfg) ==
  /\ Begin(p, 1)
  /\ pc' = [pc EXCEPT ![p] = "c_score"]
  /\ loc' = [loc EXCEPT ![p] = [NoLoc EXCEPT !.op = "create", !.run = Some(RunInternal_new(cfg))]]
  /\ UNCHANGED <<arg, res, runs, lock>>

\* the scorer answers create_run: apply_fitness, generate_run_id, then wait for the lock
CreateScored(p) ==
  /\ pc[p] = "c_score"
  /\ \E scores \in ScorerResponses(Len(loc[p].run[1].population)) :
     LET a == apply_fitness(loc[p].run[1], scores)
         id == generate_run_id(a.run.rng)
     IN  IF a.panicked
         THEN Finish(p, "panic", None)
         ELSE /\ pc' = [pc EXCEPT ![p] = "c_lock"]
              /\ loc' = [loc EXCEPT ![p].run = Some([a.run EXCEPT !.rng = id.rng]),
                                    ![p].run_id = id.run_id]
              /\ ret' = ret
  /\ UNCHANGED <<arg, res, runs, lock, ops>>

\* a guard that outlives create_run
create_run_lock_kept(p) == p

\* the lock the task holds once create_run has returned
create_run_lock_after(p) == NoProc

\* create_run under the lock: insert, return the id (the guard drops on return)
CreateInsert(p) ==
  /\ pc[p] = "c_crit"
  /\ lock = p
  /\ runs' = MapInsert(runs, loc[p].run_id, loc[p].run[1])
  /\ lock' = create_run_lock_after(p)
  /\ Finish(p, "run_id", Some(loc[p].run_id))
  /\ UNCHANGED <<arg, res, ops>>

(* step_run and advance_run *)
StepStart(p, run_id) ==
  /\ Begin(p, 1)
  /\ pc' = [pc EXCEPT ![p] = "s_lock1"]
  /\ loc' = [loc EXCEPT ![p] = [NoLoc EXCEPT !.op = "step", !.run_id = run_id, !.left = 1]]
  /\ UNCHANGED <<arg, res, runs, lock>>

\* advance_run(steps): the handler validated steps >= 1
AdvanceStart(p, run_id, steps) ==
  /\ Begin(p, steps)
  /\ pc' = [pc EXCEPT ![p] = "s_lock1"]
  /\ loc' = [loc EXCEPT ![p] = [NoLoc EXCEPT !.op = "advance", !.run_id = run_id, !.left = steps]]
  /\ UNCHANGED <<arg, res, runs, lock>>

\* holding the lock while step_run awaits the scorer
step_run_lock_held_across_score(p) == p

\* the lock the task holds when the first block of step_run ends (its guard drops)
step_run_lock_after_compute(p) == NoProc

\* the run as next_population leaves it in the registry: only its rng has moved
\* (tournament_select and the mutation draws take &mut self.rng)
run_after_next_population(run, np) == [run EXCEPT !.rng = np.rng]

\* step_run, first block: look the run up, compute the next population, release
\* (pre: the run as this step found it; start: the generation and the number of
\* history points the first step of this request found)
StepCompute(p) ==
  /\ pc[p] = "s_crit1"
  /\ lock = p
  /\ IF HashMapGet(runs, loc[p].run_id) = None
     THEN /\ Finish(p, "not_found", None)
          /\ lock' = NoProc
          /\ runs' = runs
     ELSE LET run == HashMapGet(runs, loc[p].run_id)[1]
              np == next_population(run)
          IN  /\ runs' = [runs EXCEPT ![loc[p].run_id] = run_after_next_population(run, np)]
              /\ loc' = [loc EXCEPT ![p].new_population = np.new_pop,
                                    ![p].pop_size = Len(run.population),
                                    ![p].pre = Some(run),
                                    ![p].start =
                                      IF @ = None
                                      THEN Some([generation |-> run.generation,
                                                 points |-> Len(run.history)])
                                      ELSE @]
              /\ pc' = [pc EXCEPT ![p] = "s_score"]
              /\ lock' = step_run_lock_after_compute(p)
              /\ ret' = ret
  /\ UNCHANGED <<arg, res, ops>>

\* the scorer answers step_run with a body that decodes
StepScored(p) ==
  /\ pc[p] = "s_score"
  /\ pc' = [pc EXCEPT ![p] = "s_lock2"]
  /\ \E scores \in ScorerResponses(Len(loc[p].new_population)) :
       loc' = [loc EXCEPT ![p].scores = scores]
  /\ UNCHANGED <<arg, res, runs, lock, ret, ops>>

\* the scorer call fails (transport, status or decode): `?` returns the error from
\* create_run, or from step_run and with it from advance_run
ScoreFailed(p) ==
  /\ pc[p] \in {"c_score", "s_score"}
  /\ Finish(p, "internal", None)
  /\ UNCHANGED <<arg, res, runs, lock, ops>>

\* the request task is dropped while it awaits the scorer (the client went away)
Abort(p) ==
  /\ pc[p] \in {"c_score", "s_score"}
  /\ Finish(p, "aborted", None)
  /\ UNCHANGED <<arg, res, runs, lock, ops>>

\* step_run, commit: re-look-up, size check, replace population, generation += 1,
\* apply_fitness, snapshot; then advance_run's loop goes on or returns
StepCommit(p) ==
  /\ pc[p] = "s_crit2"
  /\ lock = p
  /\ lock' = NoProc
  /\ IF HashMapGet(runs, loc[p].run_id) = None
     THEN /\ Finish(p, "not_found", None)
          /\ runs' = runs
     ELSE IF Len(loc[p].new_population) # loc[p].pop_size
     THEN /\ Finish(p, "internal", None)
          /\ runs' = runs
     ELSE LET run == HashMapGet(runs, loc[p].run_id)[1]
              a == apply_fitness([run EXCEPT !.population = loc[p].new_population,
                                             !.generation = @ + 1],
                                 loc[p].scores)
          IN  /\ runs' = [runs EXCEPT ![loc[p].run_id] = a.run]
              /\ IF a.panicked
                 THEN Finish(p, "panic", None)
                 ELSE IF loc[p].left > 1
                 THEN /\ pc' = [pc EXCEPT ![p] = "s_lock1"]
                      /\ loc' = [loc EXCEPT ![p] =
                                   [NoLoc EXCEPT !.op = loc[p].op, !.run_id = loc[p].run_id,
                                                 !.left = loc[p].left - 1,
                                                 !.done = loc[p].done + 1,
                                                 !.start = loc[p].start]]
                      /\ ret' = ret
                 ELSE Finish(p, "state", Some(to_state(a.run, loc[p].run_id)))
  /\ UNCHANGED <<arg, res, ops>>

(* get_run_state *)
SnapshotStart(p, run_id) ==
  /\ Begin(p, 1)
  /\ pc' = [pc EXCEPT ![p] = "g_lock"]
  /\ loc' = [loc EXCEPT ![p] = [NoLoc EXCEPT !.op = "snapshot", !.run_id = run_id]]
  /\ UNCHANGED <<arg, res, runs, lock>>

\* get_run_state under the lock, and get_run's mapping of None to not_found
SnapshotRead(p) ==
  /\ pc[p] = "g_crit"
  /\ lock = p
  /\ lock' = NoProc
  /\ IF HashMapGet(runs, loc[p].run_id) # None
     THEN Finish(p, "state", Some(to_state(HashMapGet(runs, loc[p].run_id)[1], loc[p].run_id)))
     ELSE Finish(p, "not_found", None)
  /\ UNCHANGED <<arg, res, runs, ops>>

(* get_history_handler *)
HistoryStart(p, run_id) ==
  /\ Begin(p, 1)
  /\ pc' = [pc EXCEPT ![p] = "h_lock1"]
  /\ loc' = [loc EXCEPT ![p] = [NoLoc EXCEPT !.op = "history", !.run_id = run_id]]
  /\ UNCHANGED <<arg, res, runs, lock>>

\* get_history under the lock; the handler then asks for the run's state
HistoryRead(p) ==
  /\ pc[p] = "h_crit1"
  /\ lock = p
  /\ lock' = NoProc
  /\ IF HashMapGet(runs, loc[p].run_id) # None
     THEN /\ pc' = [pc EXCEPT ![p] = "h_lock2"]
          /\ loc' = [loc EXCEPT ![p].points =
                                  Some(HashMapGet(runs, loc[p].run_id)[1].history)]
          /\ ret' = ret
     ELSE Finish(p, "not_found", None)
  /\ UNCHANGED <<arg, res, runs, ops>>

\* get_run_state for the task name, then the RunHistoryResponse
HistoryTask(p) ==
  /\ pc[p] = "h_crit2"
  /\ lock = p
  /\ lock' = NoProc
  /\ IF HashMapGet(runs, loc[p].run_id) # None
     THEN Finish(p, "history",
                 Some([run_id |-> loc[p].run_id,
                       task |-> to_state(HashMapGet(runs, loc[p].run_id)[1],
                                         loc[p].run_id).task,
                       points |-> loc[p].points[1]]))
     ELSE Finish(p, "not_found", None)
  /\ UNCHANGED <<arg, res, runs, ops>>

Next ==
  \E p \in Procs :
    \/ \E cfg \in Cfgs : CreateStart(p, cfg)
    \/ CreateScored(p)
    \/ CreateInsert(p)
    \/ \E id \in RunIds : StepStart(p, id)
    \/ \E id \in RunIds : \E n \in 2..MaxAdvance : AdvanceStart(p, id, n)
    \/ Acquire(p)
    \/ StepCompute(p)
    \/ StepScored(p)
    \/ ScoreFailed(p)
    \/ Abort(p)
    \/ StepCommit(p)
    \/ \E id \in RunIds : SnapshotStart(p, id)
    \/ SnapshotRead(p)
    \/ \E id \in RunIds : HistoryStart(p, id)
    \/ HistoryRead(p)
    \/ HistoryTask(p)

Spec == Init /\ [][Next]_vars

(* ------------------- apply_fitness as a function ---------------------- *)
\* the values an f64 of a fitness vector can hold, NaN among them
F64Vals == {NaN} \cup (1..MaxFit)

\* a freshly built run of n genomes and a fitness vector parallel to its population
InitBest ==
  /\ runs = << >>
  /\ lock = NoProc
  /\ pc = [p \in Procs |-> "idle"]
  /\ loc = [p \in Procs |-> NoLoc]
  /\ ret = [p \in Procs |-> NoRet]
  /\ ops = 0
  /\ \E n \in 1..BestMaxLen : \E f \in [1..n -> F64Vals] :
       arg = [run |-> RunInternal_new([seed |-> 1, population |-> n, generations |-> 1,
                                       mutation_rate |-> 5, task |-> "t"]),
              fitness |-> f]
  /\ res = None

\* run.apply_fitness(scores), as create_run calls it on the run it has built
ApplyFitness ==
  /\ res = None
  /\ res' = Some(apply_fitness(arg.run, arg.fitness))
  /\ UNCHANGED <<runs, lock, pc, loc, ret, ops, arg>>

NextBest == ApplyFitness

SpecBest == InitBest /\ [][NextBest]_vars

(* ------------------------------- claims -------------------------------- *)
\* what snapshot and history let a client see of a run
View(run) ==
  [generation |-> run.generation, best_fitness |-> run.best_fitness,
   best_genome |-> run.best_genome, history |-> run.history]

\* p's step has computed its next population and has not committed it yet
InWindow(p) == pc[p] \in {"s_score", "s_lock2"}
InFlight(p) == pc[p] \in {"s_score", "s_lock2", "s_crit2"}

\* this transition is p's step ending in failure while it awaited the scorer
StepFailsAtScorer(p) ==
  pc[p] = "s_score" /\ pc'[p] = "idle" /\ ret'[p].kind \in {"internal", "aborted"}

\* this transition is p's step committing and returning its snapshot
StepCommits(p) ==
  /\ pc[p] = "s_crit2"
  /\ \/ pc'[p] = "s_lock1"
     \/ pc'[p] = "idle" /\ ret'[p].kind = "state"

IsPrefix(s, t) == Len(s) <= Len(t) /\ SubSeq(t, 1, Len(s)) = s

SeqMax(f) == CHOOSE m \in {f[i] : i \in DOMAIN f} : \A i \in DOMAIN f : f[i] <= m

\* C1: when a step's scorer call fails, or its task is aborted while it awaits the
\* scorer, every component of the run (population, fitness, generation,
\* best_fitness, best_genome, history and the RNG state) equals its value before
\* the step began.
C1_FailedStepLeavesRunUnchanged ==
  [][\A p \in Procs :
       StepFailsAtScorer(p) =>
         /\ loc[p].run_id \in DOMAIN runs'
         /\ runs'[loc[p].run_id] = loc[p].pre[1]]_vars

\* C2: steps on one run serialize: a step computes its next population only after
\* every other step on that run has committed, so no two steps of one run are
\* between computation and commit at once.
C2_StepsSerialize ==
  \A p, q \in Procs :
    (p # q /\ InFlight(p) /\ InFlight(q)) => loc[p].run_id # loc[q].run_id

\* C3: while a create or a step awaits the scorer, that request does not hold the
\* registry mutex.
C3_NoLockAcrossScorer ==
  \A p \in Procs : pc[p] \in {"c_score", "s_score"} => lock # p

\* C3 witness: a step awaits the scorer while another request holds the mutex
C3_OtherProceedsDuringScoring ==
  \E p, q \in Procs : p # q /\ pc[p] = "s_score" /\ lock = q

\* C4: whatever a snapshot or history read returns between a step's computation
\* and its commit is the generation, best_fitness, best_genome and history the
\* run had committed before that step.
C4_ReadsSeePreStep ==
  \A p \in Procs :
    InWindow(p) =>
      /\ loc[p].run_id \in DOMAIN runs
      /\ View(runs[loc[p].run_id]) = View(loc[p].pre[1])

\* C5: a run in the registry stays there, its generation never decreases and its
\* history is only ever extended, whatever operation runs (a later create
\* included).
C5_RunsOnlyGrow ==
  [][\A r \in DOMAIN runs :
       /\ r \in DOMAIN runs'
       /\ runs'[r].generation >= runs[r].generation
       /\ IsPrefix(runs[r].history, runs'[r].history)]_vars

\* C6: every successful step leaves best_fitness at least what it was before it.
C6_BestFitnessMonotone ==
  [][\A p \in Procs :
       StepCommits(p) =>
         runs'[loc[p].run_id].best_fitness >= runs[loc[p].run_id].best_fitness]_vars

\* C7: in every run of the registry the history holds exactly one point per
\* generation 0..generation, in increasing order, so its last entry's generation
\* is the current generation.
C7_HistoryTracksGeneration ==
  \A r \in DOMAIN runs :
    /\ Len(runs[r].history) = runs[r].generation + 1
    /\ \A i \in 1..Len(runs[r].history) : runs[r].history[i][1] = i - 1

\* the non-NaN values of a fitness vector
NonNaN(f) == {f[i] : i \in DOMAIN f} \ {NaN}

\* C8: if the scored vector holds a non-NaN value, the best_fitness apply_fitness
\* records is the maximum of its non-NaN values.
C8_NaNLoses ==
  (res # None /\ NonNaN(arg.fitness) # {}) =>
    /\ res[1].run.best_fitness # NaN
    /\ \A v \in NonNaN(arg.fitness) : v <= res[1].run.best_fitness
    /\ res[1].run.best_fitness \in NonNaN(arg.fitness)

\* the indices of the members that attain the maximum of a NaN-free vector
ArgMax(f) == {i \in DOMAIN f : \A j \in DOMAIN f : f[j] <= f[i]}

SetMin(S) == CHOOSE m \in S : \A x \in S : m <= x
SetMax(S) == CHOOSE m \in S : \A x \in S : x <= m

\* several members attain the maximum of the NaN-free vector just applied
TieApplied ==
  /\ res # None
  /\ NaN \notin {arg.fitness[i] : i \in DOMAIN arg.fitness}
  /\ Cardinality(ArgMax(arg.fitness)) > 1

C10_BestIsMaxOfFitness ==
  \A r \in DOMAIN runs :
    /\ runs[r].fitness # <<>>
    /\ runs[r].best_fitness = SeqMax(runs[r].fitness)
    /\ \E i \in DOMAIN runs[r].population :
         /\ i \in DOMAIN runs[r].fitness
         /\ runs[r].fitness[i] = runs[r].best_fitness
         /\ runs[r].population[i] = runs[r].best_genome

(* ------------------ tournament_select as a function -------------------- *)
\* function-level checks of tournament_select: populations of 1..TourMaxLen
\* genomes, generator states 0..TourMaxRng
TourMaxLen == 3
TourMaxRng == 15

\* the values a stored fitness can hold: NaN, f64::MIN, a negative and positives
TourVals == F64Vals \cup {F64MIN, 0 - 1}

\* a run of n genomes whose fitness vector holds at most n values (it is shorter
\* when the scorer answered with fewer values than genomes), and a generator state
InitTour ==
  /\ runs = << >>
  /\ lock = NoProc
  /\ pc = [p \in Procs |-> "idle"]
  /\ loc = [p \in Procs |-> NoLoc]
  /\ ret = [p \in Procs |-> NoRet]
  /\ ops = 0
  /\ \E n \in 1..TourMaxLen : \E k \in 0..n : \E f \in [1..k -> TourVals] :
     \E g \in 0..TourMaxRng :
       arg = [run |-> [RunInternal_new([seed |-> 1, population |-> n, generations |-> 1,
                                        mutation_rate |-> 5, task |-> "t"])
                         EXCEPT !.fitness = f],
              rng |-> g]
  /\ res = None

\* self.tournament_select(3), as next_population calls it
TournamentSelect ==
  /\ res = None
  /\ res' = Some(tournament_select(arg.run, arg.rng, 3))
  /\ UNCHANGED <<runs, lock, pc, loc, ret, ops, arg>>

NextTour == TournamentSelect

SpecTour == InitTour /\ [][NextTour]_vars

\* the three indices (0-based) tournament_select draws from generator state g
TourDraws(g, len) ==
  LET d1 == gen_range_usize(g, len)
      d2 == gen_range_usize(d1.rng, len)
      d3 == gen_range_usize(d2.rng, len)
  IN  <<d1.v, d2.v, d3.v>>

\* the fitness C11 gives index i: 0.0 when it is missing or NaN
TourFitAsClaimed(f, i) ==
  IF i >= Len(f) \/ f[i + 1] = NaN THEN 0 ELSE f[i + 1]

\* C11: tournament selection with k = 3 returns one of the three indices it drew,
\* the one whose current fitness is largest, ties going to the earliest draw, where
\* a missing or NaN fitness at a drawn index counts as 0.0.
C11_TournamentPicksBestDraw ==
  res # None =>
    LET d == TourDraws(arg.rng, Len(arg.run.population))
        fit(j) == TourFitAsClaimed(arg.run.fitness, d[j])
        w == CHOOSE j \in 1..3 :
               /\ \A i \in 1..3 : fit(i) <= fit(j)
               /\ \A i \in 1..(j - 1) : fit(i) < fit(j)
    IN  /\ \E j \in 1..3 : res[1].idx = d[j]
        /\ res[1].idx = d[w]

\* C12: in every run of the registry (after create and after every committed step)
\* the fitness vector has exactly one value per population member, whatever vector
\* the scorer client returned successfully.
C12_FitnessParallelToPopulation ==
  \A r \in DOMAIN runs : Len(runs[r].fitness) = Len(runs[r].population)

\* C13: in every run of the registry, at every state a request can observe, the
\* population holds exactly cfg.population genomes.
C13_PopulationSizeFixed ==
  \A r \in DOMAIN runs : Len(runs[r].population) = runs[r].cfg.population

\* C13 witness: a run whose population a committed step has replaced
C13_SteppedRunKeepsSize ==
  \E r \in DOMAIN runs :
    /\ runs[r].generation >= 1
    /\ runs[r].population # RunInternal_new(runs[r].cfg).population
    /\ Len(runs[r].population) = runs[r].cfg.population

\* the only requests so far are one create and p's advance, so no other step runs
\* on the run
AdvanceAlone(p) == ops = 1 + loc[p].done + loc[p].left

\* this transition is p's advance ending at a failed step (its k-th, k = done + 1)
AdvanceFails(p) ==
  /\ loc[p].op = "advance" /\ loc[p].start # None
  /\ pc[p] \in {"s_score", "s_crit2"}
  /\ pc'[p] = "idle" /\ ret'[p].kind # "state"

\* this transition is p's advance returning after its last step
AdvanceReturns(p) ==
  /\ loc[p].op = "advance" /\ loc[p].start # None
  /\ pc[p] = "s_crit2"
  /\ pc'[p] = "idle" /\ ret'[p].kind = "state"

\* C15: advance(run_id, n) runs its steps one after another.  When its k-th step
\* fails it returns that error (or is gone with its client), attempts no further
\* step, and the run's generation and history length have advanced by exactly
\* k - 1; when all n steps succeed the generation has advanced by exactly n and
\* the snapshot returned is that of the last step.
C15_AdvanceStopsAtFirstFailure ==
  [][\A p \in Procs :
       AdvanceAlone(p) =>
         /\ AdvanceFails(p) =>
              /\ ret'[p].kind \in {"internal", "not_found", "aborted"}
              /\ loc[p].run_id \in DOMAIN runs'
              /\ runs'[loc[p].run_id].generation
                   = loc[p].start[1].generation + loc[p].done
              /\ Len(runs'[loc[p].run_id].history)
                   = loc[p].start[1].points + loc[p].done
         /\ AdvanceReturns(p) =>
              /\ runs'[loc[p].run_id].generation
                   = loc[p].start[1].generation + loc[p].done + 1
              /\ ret'[p].val
                   = Some(to_state(runs'[loc[p].run_id], loc[p].run_id))]_vars

\* this transition is p's lookup of a run_id the registry does not hold, by a step
\* or an advance (first block of step_run), a snapshot or a history read
MissingLookup(p) ==
  /\ pc[p] \in {"s_crit1", "g_crit", "h_crit1"}
  /\ pc'[p] # pc[p]
  /\ loc[p].run_id \notin DOMAIN runs

\* C16: a step, advance, snapshot or history on a run_id that is not in the
\* registry returns not_found: the request ends there (no scorer call is issued)
\* and the registry and every run in it are unchanged.
C16_MissingRunNotFound ==
  [][\A p \in Procs :
       MissingLookup(p) =>
         /\ pc'[p] = "idle"
         /\ ret'[p].kind = "not_found"
         /\ runs' = runs]_vars

\* C16 witness: a request on a missing run_id has been answered not_found while the
\* registry holds a run
C16_NotFoundBesideARun ==
  \E p \in Procs : ret[p].kind = "not_found" /\ pc[p] = "idle" /\ DOMAIN runs # {}

(* ----------------------- f64 arithmetic of the VM ---------------------- *)
\* The VM computes on f64.  Here an f64 is NaN, an infinity, or a decimal floating
\* point number m * 10^e whose mantissa m has at most F64Digits digits and no
\* trailing zero; results are rounded to that precision, overflow to an infinity
\* and underflow to zero, as f64 does at its own precision and range.
F64Digits == 3
\* the decimal exponents of f64::MAX and of the least positive f64
F64MaxExp == 308
F64MinExp == 0 - 324

f64_nan == [k |-> "nan", m |-> 0, e |-> 0]
f64_inf(sign) == [k |-> "inf", m |-> sign, e |-> 0]
f64_zero == [k |-> "num", m |-> 0, e |-> 0]

IntAbs(n) == IF n < 0 THEN 0 - n ELSE n
IntSign(n) == IF n < 0 THEN 0 - 1 ELSE IF n = 0 THEN 0 ELSE 1

RECURSIVE Pow10(_)
Pow10(k) == IF k = 0 THEN 1 ELSE 10 * Pow10(k - 1)

RECURSIVE DecDigits(_)
DecDigits(n) == IF n < 10 THEN 1 ELSE 1 + DecDigits(n \div 10)

\* the f64 nearest to m * 10^e
RECURSIVE f64_num(_, _)
f64_num(m, e) ==
  IF m = 0 THEN f64_zero
  ELSE IF IntAbs(m) >= Pow10(F64Digits)
  THEN f64_num(IntSign(m) * ((IntAbs(m) + 5) \div 10), e + 1)
  ELSE IF IntAbs(m) % 10 = 0
  THEN f64_num(IntSign(m) * (IntAbs(m) \div 10), e + 1)
  ELSE IF DecDigits(IntAbs(m)) + e - 1 > F64MaxExp THEN f64_inf(IntSign(m))
  ELSE IF DecDigits(IntAbs(m)) + e - 1 < F64MinExp THEN f64_zero
  ELSE [k |-> "num", m |-> m, e |-> e]

\* the f64 of an instruction argument, which the model counts in tenths
f64_of_tenths(t) == f64_num(t, 0 - 1)

\* f64::is_finite
is_finite(a) == a.k = "num"

\* unary minus
f64_neg(a) == IF a.k = "nan" THEN a ELSE [a EXCEPT !.m = 0 - @]

\* f64::abs
f64_abs(a) == IF a.k = "nan" THEN a ELSE [a EXCEPT !.m = IntAbs(@)]

\* a + b
f64_add(a, b) ==
  IF a.k = "nan" \/ b.k = "nan" THEN f64_nan
  ELSE IF a.k = "inf" /\ b.k = "inf" THEN (IF a.m = b.m THEN a ELSE f64_nan)
  ELSE IF a.k = "inf" THEN a
  ELSE IF b.k = "inf" THEN b
  ELSE IF a.m = 0 THEN b
  ELSE IF b.m = 0 THEN a
  ELSE LET hi == IF a.e >= b.e THEN a ELSE b
           lo == IF a.e >= b.e THEN b ELSE a
           d == hi.e - lo.e
       IN  IF d > 2 * F64Digits THEN hi
           ELSE f64_num(hi.m * Pow10(d) + lo.m, lo.e)

\* a - b
f64_sub(a, b) == f64_add(a, f64_neg(b))

\* a * b
f64_mul(a, b) ==
  IF a.k = "nan" \/ b.k = "nan" THEN f64_nan
  ELSE IF a.k = "inf" \/ b.k = "inf"
  THEN (IF a.m = 0 \/ b.m = 0 THEN f64_nan ELSE f64_inf(IntSign(a.m) * IntSign(b.m)))
  ELSE f64_num(a.m * b.m, a.e + b.e)

\* a / b
f64_div(a, b) ==
  IF a.k = "nan" \/ b.k = "nan" THEN f64_nan
  ELSE IF a.k = "inf"
  THEN (IF b.k = "inf" THEN f64_nan
        ELSE f64_inf(IntSign(a.m) * (IF b.m < 0 THEN 0 - 1 ELSE 1)))
  ELSE IF b.k = "inf" THEN f64_zero
  ELSE IF b.m = 0 THEN (IF a.m = 0 THEN f64_nan ELSE f64_inf(IntSign(a.m)))
  ELSE f64_num(IntSign(a.m) * IntSign(b.m)
                 * ((IntAbs(a.m) * Pow10(2 * F64Digits)) \div IntAbs(b.m)),
               a.e - b.e - 2 * F64Digits)

\* a < b: false when either side is NaN
f64_lt(a, b) ==
  /\ a.k # "nan" /\ b.k # "nan"
  /\ a # b
  /\ f64_sub(a, b).m < 0

(* --------------------------------- VM ---------------------------------- *)
\* function-level checks of run_genome: genomes of 0..VmMaxLen instructions, step
\* budgets 0..VmMaxBudget and the default budget
VmMaxLen == 3
VmMaxBudget == 2

\* vm.rs VmConfig::default
DefaultMaxSteps == 256

\* vm.rs EPS_DIVISOR
EPS_DIVISOR == f64_num(1, 0 - 12)

\* genome.rs parse_register_index: Ok(idx) for exactly 0.0, 1.0, 2.0, 3.0
parse_register_index(a) ==
  IF a # None
     /\ f64_of_tenths(a[1]) \in {f64_num(0, 0), f64_num(1, 0), f64_num(2, 0), f64_num(3, 0)}
  THEN [ok |-> TRUE, idx |-> f64_of_tenths(a[1]).m, err |-> ""]
  ELSE [ok |-> FALSE, idx |-> 0, err |-> "invalid register index"]

\* vm.rs VmOutcome
VmOk(output) == [kind |-> "Ok", output |-> Some(output), reason |-> ""]
Invalid(reason) == [kind |-> "Invalid", output |-> None, reason |-> reason]

\* `return VmOutcome::Invalid { reason }` out of the loop
vm_fail(vm, reason) == [vm EXCEPT !.outcome = Some(Invalid(reason))]

\* the state run_genome starts its loop in
vm_init(x) ==
  [registers |-> [i \in 1..REGISTER_COUNT |-> IF i = 1 THEN x ELSE f64_zero],
   stack |-> <<>>, pc |-> 0, steps |-> 0, halted |-> FALSE, outcome |-> None]

\* a budget check that lets one more instruction through
budget_spent_late(steps, max_steps) == steps > max_steps

\* `steps >= cfg.max_steps`
budget_spent(steps, max_steps) == steps >= max_steps

\* pop_two that asks for one element only and reads a missing second one as 0.0
pop_two_lenient(stack) ==
  IF Len(stack) < 1 THEN None
  ELSE Some([a |-> IF Len(stack) < 2 THEN f64_zero ELSE stack[Len(stack) - 1],
             b |-> stack[Len(stack)],
             stack |-> IF Len(stack) < 2 THEN <<>> ELSE SubSeq(stack, 1, Len(stack) - 2)])

\* pop_two handing its two values over in the order they were popped
pop_two_swapped(stack) ==
  IF Len(stack) < 2 THEN None
  ELSE Some([a |-> stack[Len(stack)],
             b |-> stack[Len(stack) - 1],
             stack |-> SubSeq(stack, 1, Len(stack) - 2)])

\* vm.rs pop_two: b is popped first, then a; nothing is popped when fewer than two
pop_two(stack) ==
  IF Len(stack) < 2 THEN None
  ELSE Some([a |-> stack[Len(stack) - 1],
             b |-> stack[Len(stack)],
             stack |-> SubSeq(stack, 1, Len(stack) - 2)])

\* a divisor test that rejects exact zero only
div_near_zero_exact(b) == b = f64_zero

\* `b.abs() < EPS_DIVISOR`
div_near_zero(b) == f64_lt(f64_abs(b), EPS_DIVISOR)

\* the arm of ADD, SUB or MUL: pop_two, push a + b, a - b or a * b
vm_binop(vm, op) ==
  LET t == pop_two(vm.stack)
  IN  IF t = None THEN vm_fail(vm, "stack underflow")
      ELSE [vm EXCEPT !.stack =
                        Append(t[1].stack,
                               CASE op = "ADD" -> f64_add(t[1].a, t[1].b)
                                 [] op = "SUB" -> f64_sub(t[1].a, t[1].b)
                                 [] OTHER -> f64_mul(t[1].a, t[1].b))]

\* the match on instr.op of run_genome
vm_dispatch(vm, instr) ==
  LET n == Len(vm.stack)
      r == parse_register_index(instr.arg)
  IN  CASE instr.op = "PUSH" ->
             IF instr.arg = None THEN vm_fail(vm, "PUSH missing arg")
             ELSE [vm EXCEPT !.stack = Append(@, f64_of_tenths(instr.arg[1]))]
        [] instr.op = "LOAD" ->
             IF ~r.ok THEN vm_fail(vm, r.err)
             ELSE [vm EXCEPT !.stack = Append(@, vm.registers[r.idx + 1])]
        [] instr.op = "STORE" ->
             IF ~r.ok THEN vm_fail(vm, r.err)
             ELSE IF n = 0 THEN vm_fail(vm, "stack underflow")
             ELSE [vm EXCEPT !.registers[r.idx + 1] = vm.stack[n],
                             !.stack = SubSeq(@, 1, n - 1)]
        [] instr.op \in {"ADD", "SUB", "MUL"} -> vm_binop(vm, instr.op)
        [] instr.op = "DIV" ->
             LET t == pop_two(vm.stack)
             IN  IF t = None THEN vm_fail(vm, "stack underflow")
                 ELSE IF div_near_zero(t[1].b)
                 THEN vm_fail([vm EXCEPT !.stack = t[1].stack], "division by near-zero")
                 ELSE [vm EXCEPT !.stack = Append(t[1].stack, f64_div(t[1].a, t[1].b))]
        [] instr.op = "DUP" ->
             IF n = 0 THEN vm_fail(vm, "stack underflow")
             ELSE [vm EXCEPT !.stack = Append(@, vm.stack[n])]
        [] instr.op = "SWAP" ->
             IF n < 2 THEN vm_fail(vm, "stack underflow")
             ELSE [vm EXCEPT !.stack = Append(Append(SubSeq(@, 1, n - 2), vm.stack[n]),
                                              vm.stack[n - 1])]
        [] instr.op = "POP" ->
             IF n = 0 THEN vm_fail(vm, "stack underflow")
             ELSE [vm EXCEPT !.stack = SubSeq(@, 1, n - 1)]
        [] instr.op = "HALT" -> [vm EXCEPT !.halted = TRUE]
        [] instr.op = "NOP" -> vm
        [] OTHER -> vm_fail(vm, "unknown opcode")

\* one turn of the while loop: budget check, steps += 1, dispatch, pc += 1
vm_step(vm, genome, cfg) ==
  IF budget_spent(vm.steps, cfg.max_steps) THEN vm_fail(vm, "max steps exceeded")
  ELSE LET d == vm_dispatch([vm EXCEPT !.steps = @ + 1], genome.instructions[vm.pc + 1])
       IN  IF d.outcome # None \/ d.halted THEN d ELSE [d EXCEPT !.pc = @ + 1]

\* after the loop: the output is the top of the stack, or R[0]; it must be finite
vm_return(vm) ==
  LET output == IF vm.stack = <<>> THEN vm.registers[1] ELSE vm.stack[Len(vm.stack)]
  IN  IF ~is_finite(output) THEN vm_fail(vm, "non-finite output")
      ELSE [vm EXCEPT !.outcome = Some(VmOk(output))]

\* the instructions of the genomes run: well-formed ones, a PUSH and a STORE without
\* their argument, and an opcode outside OPS
VmInstructions ==
  {Instruction("PUSH", Some(20)), Instruction("PUSH", Some(30)), Instruction("PUSH", None),
   Instruction("LOAD", Some(0)), Instruction("LOAD", Some(10)),
   Instruction("STORE", Some(10)), Instruction("STORE", None),
   Instruction("JMP", None)}
  \cup {Instruction(op, None) :
          op \in {"ADD", "SUB", "MUL", "DIV", "DUP", "SWAP", "POP", "HALT", "NOP"}}

\* the inputs x: just below EPS_DIVISOR, EPS_DIVISOR itself, and NaN
VmInputs == {f64_num(1, 0 - 13), f64_num(1, 0 - 12), f64_nan}

InitVM ==
  /\ runs = << >>
  /\ lock = NoProc
  /\ pc = [p \in Procs |-> "idle"]
  /\ loc = [p \in Procs |-> NoLoc]
  /\ ret = [p \in Procs |-> NoRet]
  /\ ops = 0
  /\ \E n \in 0..VmMaxLen : \E is \in [1..n -> VmInstructions] : \E x \in VmInputs :
     \E b \in (0..VmMaxBudget) \cup {DefaultMaxSteps} :
       arg = [genome |-> [instructions |-> is], x |-> x, cfg |-> [max_steps |-> b]]
  /\ res = None

\* run_genome is called: registers, stack, pc and steps are set up
VmStart ==
  /\ res = None
  /\ res' = Some(vm_init(arg.x))
  /\ UNCHANGED <<runs, lock, pc, loc, ret, ops, arg>>

\* the loop condition holds: one more turn of the loop
VmLoop ==
  /\ res # None
  /\ res[1].outcome = None /\ ~res[1].halted
  /\ res[1].pc < Len(arg.genome.instructions)
  /\ res' = Some(vm_step(res[1], arg.genome, arg.cfg))
  /\ UNCHANGED <<runs, lock, pc, loc, ret, ops, arg>>

\* the loop is left by HALT or by running past the last instruction
VmReturn ==
  /\ res # None
  /\ res[1].outcome = None
  /\ res[1].halted \/ res[1].pc >= Len(arg.genome.instructions)
  /\ res' = Some(vm_return(res[1]))
  /\ UNCHANGED <<runs, lock, pc, loc, ret, ops, arg>>

NextVM == VmStart \/ VmLoop \/ VmReturn

SpecVM == InitVM /\ [][NextVM]_vars

(* ------------------------------ VM claims ------------------------------ *)
\* this transition is a turn of the loop that passed the budget check: the
\* instruction at pc is dispatched
VmDispatches ==
  /\ res # None /\ res' # None
  /\ res[1].outcome = None
  /\ res'[1].steps = res[1].steps + 1

\* the instruction at pc
VmInstr == arg.genome.instructions[res[1].pc + 1]

\* the number of stack values an op consumes
VmConsumes(op) ==
  IF op \in {"STORE", "DUP", "POP"} THEN 1
  ELSE IF op \in {"ADD", "SUB", "MUL", "DIV", "SWAP"} THEN 2
  ELSE 0

\* the VM has returned
VmReturned == res # None /\ res[1].outcome # None

\* C17 as stated: whenever an op that consumes n stack values (STORE, DUP, POP with
\* n = 1; ADD, SUB, MUL, DIV, SWAP with n = 2) is dispatched on a stack of fewer
\* than n values, the VM returns Invalid with reason underflow.
C17_UnderflowAnyInstruction ==
  [][(VmDispatches /\ Len(res[1].stack) < VmConsumes(VmInstr.op))
       => res'[1].outcome = Some(Invalid("stack underflow"))]_vars

\* C17 as amended: the same for every such op whose STORE, if it is one, carries a
\* valid register index (STORE parses its register index before it pops).
C17_UnderflowValidInstruction ==
  [][(/\ VmDispatches
      /\ Len(res[1].stack) < VmConsumes(VmInstr.op)
      /\ VmInstr.op = "STORE" => parse_register_index(VmInstr.arg).ok)
       => res'[1].outcome = Some(Invalid("stack underflow"))]_vars

\* C17 witness: a STORE with a valid register index has underflowed
C17_StoreUnderflowed ==
  /\ VmReturned
  /\ res[1].outcome = Some(Invalid("stack underflow"))
  /\ VmInstr.op = "STORE" /\ parse_register_index(VmInstr.arg).ok
  /\ res[1].stack = <<>>

\* C18: the VM dispatches at most max_steps instructions, and it returns
\* Invalid(max_steps_exceeded) exactly when, no instruction having failed, it has
\* dispatched max_steps instructions and has neither executed HALT nor run past
\* the last instruction.
C18_MaxStepsBoundsExecution ==
  res # None =>
    /\ res[1].steps <= arg.cfg.max_steps
    /\ VmReturned =>
         (res[1].outcome = Some(Invalid("max steps exceeded"))
            <=> /\ res[1].steps = arg.cfg.max_steps
                /\ ~res[1].halted
                /\ res[1].pc < Len(arg.genome.instructions)
                /\ res[1].outcome[1].reason
                     \notin {"PUSH missing arg", "invalid register index", "stack underflow",
                             "division by near-zero", "unknown opcode"})

\* C18 witness: a program of more instructions than its budget, cut off after it
\* has dispatched max_steps >= 1 of them
C18_CutOffAtBudget ==
  /\ VmReturned
  /\ res[1].outcome = Some(Invalid("max steps exceeded"))
  /\ res[1].steps = arg.cfg.max_steps /\ res[1].steps >= 1
  /\ res[1].pc = res[1].steps

\* the output of a VM that has left its loop: the top of the stack, or R[0]
VmOutput(vm) == IF vm.stack = <<>> THEN vm.registers[1] ELSE vm.stack[Len(vm.stack)]

\* the run ended within budget and without a failure
VmRanClean == VmReturned /\ res[1].outcome[1].kind = "Ok"

\* C19, results: a run that ends at HALT or past the last instruction with a finite
\* output returns Ok(top of stack), or Ok(R[0]) on an empty stack, and Ok is
\* returned in no other way; [PUSH a, PUSH b, op] yields a op b for ADD, SUB and
\* MUL, `PUSH a; HALT` yields a and `LOAD 0; HALT` yields x.
C19_Result ==
  VmReturned =>
    LET is == arg.genome.instructions
        out == res[1].outcome[1]
    IN  /\ (res[1].halted \/ res[1].pc >= Len(is)) /\ is_finite(VmOutput(res[1]))
             => out = VmOk(VmOutput(res[1]))
        /\ out.kind = "Ok"
             => /\ res[1].halted \/ res[1].pc >= Len(is)
                /\ out.output = Some(VmOutput(res[1]))
        /\ VmRanClean =>
             /\ (Len(is) = 3 /\ is[1].op = "PUSH" /\ is[2].op = "PUSH")
                  => LET a == f64_of_tenths(is[1].arg[1])
                         b == f64_of_tenths(is[2].arg[1])
                     IN  /\ is[3].op = "ADD" => out.output = Some(f64_add(a, b))
                         /\ is[3].op = "SUB" => out.output = Some(f64_sub(a, b))
                         /\ is[3].op = "MUL" => out.output = Some(f64_mul(a, b))
             /\ (Len(is) = 2 /\ is[1].op = "PUSH" /\ is[2].op = "HALT")
                  => out.output = Some(f64_of_tenths(is[1].arg[1]))
             /\ (Len(is) = 2 /\ is[1] = Instruction("LOAD", Some(0)) /\ is[2].op = "HALT")
                  => out.output = Some(arg.x)

\* C19, operands: ADD, SUB and MUL dispatched on a stack ... a b replace a and b by
\* a op b, b being the top.
C19_BinOp ==
  (VmDispatches /\ VmInstr.op \in {"ADD", "SUB", "MUL"} /\ Len(res[1].stack) >= 2)
    => LET n == Len(res[1].stack)
           a == res[1].stack[n - 1]
           b == res[1].stack[n]
           v == CASE VmInstr.op = "ADD" -> f64_add(a, b)
                  [] VmInstr.op = "SUB" -> f64_sub(a, b)
                  [] OTHER -> f64_mul(a, b)
       IN  /\ res'[1].outcome = None
           /\ res'[1].stack = Append(SubSeq(res[1].stack, 1, n - 2), v)

\* C19: for every genome that runs within budget without a failure run_genome
\* returns Ok(top of the operand stack) at HALT or fall-through, or Ok(R[0]) if the
\* stack is empty; ADD, SUB and MUL pop b then a and push a op b.
C19_ResultSemantics == []C19_Result /\ [][C19_BinOp]_vars

\* C19 witness: [PUSH 2, PUSH 3, SUB] has returned Ok(2 - 3)
C19_SubReturned ==
  /\ VmRanClean
  /\ arg.genome.instructions
       = <<Instruction("PUSH", Some(20)), Instruction("PUSH", Some(30)),
           Instruction("SUB", None)>>
  /\ res[1].outcome[1].output = Some(f64_num(0 - 1, 0))

\* C20: DIV dispatched on a stack ... a b whose top b has |b| < 1e-12 returns
\* Invalid(div_near_zero) whatever a is, and pushes no quotient; with
\* |b| >= 1e-12 it replaces a and b by a / b.
C20_DivNearZero ==
  [][(VmDispatches /\ VmInstr.op = "DIV" /\ Len(res[1].stack) >= 2)
       => LET n == Len(res[1].stack)
              a == res[1].stack[n - 1]
              b == res[1].stack[n]
              rest == SubSeq(res[1].stack, 1, n - 2)
          IN  /\ f64_lt(f64_abs(b), EPS_DIVISOR)
                   => /\ res'[1].outcome = Some(Invalid("division by near-zero"))
                      /\ res'[1].stack = rest
              /\ (b.k # "nan" /\ ~f64_lt(f64_abs(b), EPS_DIVISOR))
                   => /\ res'[1].outcome = None
                      /\ res'[1].stack = Append(rest, f64_div(a, b))]_vars

\* C20 witness: [PUSH 2, LOAD 0, DIV] on x = 1e-13 has failed with div_near_zero
C20_TinyDivisorRejected ==
  /\ VmReturned
  /\ res[1].outcome = Some(Invalid("division by near-zero"))
  /\ arg.x = f64_num(1, 0 - 13)
  /\ arg.genome.instructions
       = <<Instruction("PUSH", Some(20)), Instruction("LOAD", Some(0)),
           Instruction("DIV", None)>>

(* ------------------- genome operators as functions --------------------- *)
\* function-level checks of the genome operators: up to GenMaxMut operators in a
\* row, generator states 0..GenMaxRng
GenMaxMut == 3
GenMaxRng == 31

\* the genomes mutation starts from: a random genome, the empty genome (the
\* best_genome placeholder of RunInternal::new) and a genome of ABS_MAX_LEN
\* instructions (those of a random genome, repeated)
GenomeKinds == {"random", "empty", "full"}

StartGenome(a) ==
  CASE a.from = "random" -> random_genome(a.rng)
    [] a.from = "empty" -> [genome |-> [instructions |-> <<>>], rng |-> a.rng]
    [] OTHER -> LET g == random_genome(a.rng)
                    n == Len(g.genome.instructions)
                IN  [genome |-> [instructions |->
                                   [i \in 1..ABS_MAX_LEN |->
                                      g.genome.instructions[((i - 1) % n) + 1]]],
                     rng |-> g.rng]

InitGenome ==
  /\ runs = << >>
  /\ lock = NoProc
  /\ pc = [p \in Procs |-> "idle"]
  /\ loc = [p \in Procs |-> NoLoc]
  /\ ret = [p \in Procs |-> NoRet]
  /\ ops = 0
  /\ \E g \in 0..GenMaxRng : \E k \in GenomeKinds : arg = [rng |-> g, from |-> k]
  /\ res = None

\* the genome is built
GenomeStart ==
  /\ res = None
  /\ res' = Some([genome |-> StartGenome(arg).genome, rng |-> StartGenome(arg).rng,
                  n |-> 0, last |-> "start"])
  /\ UNCHANGED <<runs, lock, pc, loc, ret, ops, arg>>

\* one operator is applied to the genome; r is its result
GenomeApply(name, r) ==
  /\ res' = Some([genome |-> r.genome, rng |-> r.rng, n |-> res[1].n + 1, last |-> name])
  /\ UNCHANGED <<runs, lock, pc, loc, ret, ops, arg>>

\* mutate_genome(&mut child, &mut self.rng), as next_population calls it
MutateGenome ==
  /\ res # None /\ res[1].n < GenMaxMut
  /\ GenomeApply("mutate_genome", mutate_genome(res[1].genome, res[1].rng))

\* the four operators, as mutate_genome calls them on a non-empty genome
PointMutate ==
  /\ res # None /\ res[1].n < GenMaxMut /\ res[1].genome.instructions # <<>>
  /\ GenomeApply("point_mutate", point_mutate(res[1].genome, res[1].rng))

TweakPush ==
  /\ res # None /\ res[1].n < GenMaxMut /\ res[1].genome.instructions # <<>>
  /\ GenomeApply("tweak_push", tweak_push(res[1].genome, res[1].rng))

InsertInstruction ==
  /\ res # None /\ res[1].n < GenMaxMut /\ res[1].genome.instructions # <<>>
  /\ GenomeApply("insert_instruction", insert_instruction(res[1].genome, res[1].rng))

DeleteInstruction ==
  /\ res # None /\ res[1].n < GenMaxMut /\ res[1].genome.instructions # <<>>
  /\ GenomeApply("delete_instruction", delete_instruction(res[1].genome, res[1].rng))

NextGenome ==
  \/ GenomeStart
  \/ MutateGenome
  \/ PointMutate
  \/ TweakPush
  \/ InsertInstruction
  \/ DeleteInstruction

SpecGenome == InitGenome /\ [][NextGenome]_vars

\* the length of a genome is within lo..hi
LenWithin(genome, lo, hi) == lo <= Len(genome.instructions) /\ Len(genome.instructions) <= hi

\* the function part of C21: a random genome has MIN_LEN..MAX_LEN instructions, and
\* whatever genome mutate_genome is applied to, the result has 1..ABS_MAX_LEN
GenomeLengthsKept ==
  res # None =>
    /\ (arg.from = "random" /\ res[1].n = 0) => LenWithin(res[1].genome, MIN_LEN, MAX_LEN)
    /\ res[1].last = "mutate_genome" => LenWithin(res[1].genome, 1, ABS_MAX_LEN)

\* C21: every genome in the population of every run of the registry has length in
\* [1, 64] (random genomes have 8..32 instructions and mutate_genome keeps every
\* genome within 1..64).
C21_PopulationGenomeLengths ==
  \A r \in DOMAIN runs : \A i \in DOMAIN runs[r].population :
    LenWithin(runs[r].population[i], 1, ABS_MAX_LEN)

\* an instruction is well-formed (arguments in tenths)
WellFormed(ins) ==
  /\ ins.op \in {OPS[i] : i \in DOMAIN OPS}
  /\ ins.op = "PUSH" => (ins.arg # None /\ ins.arg[1] >= 0 - 100 /\ ins.arg[1] <= 100)
  /\ ins.op \in {"LOAD", "STORE"} => (ins.arg # None /\ ins.arg[1] \in {0, 10, 20, 30})
  /\ ins.op \notin {"PUSH", "LOAD", "STORE"} => ins.arg = None

\* C22: every instruction of a randomly generated genome, and of every genome
\* obtained from well-formed genomes by any sequence of point_mutate, tweak_push,
\* insert_instruction and delete_instruction (and of mutate_genome, which picks
\* among them), has its op among the 12 of OPS, with PUSH carrying an arg in
\* [-10, 10], LOAD and STORE an arg in {0, 1, 2, 3}, and every other op no arg.
C22_InstructionsWellFormed ==
  res # None =>
    \A i \in DOMAIN res[1].genome.instructions : WellFormed(res[1].genome.instructions[i])

\* C22 witness: tweak_push has moved a PUSH argument onto the bound 10.0 of the
\* clamp, after another operator
C22_TweakedToTheBound ==
  /\ res # None
  /\ res[1].n >= 2 /\ res[1].last = "tweak_push"
  /\ \E i \in DOMAIN res[1].genome.instructions :
       /\ res[1].genome.instructions[i].op = "PUSH"
       /\ res[1].genome.instructions[i].arg \in {Some(100), Some(0 - 100)}

(* ------------------------------- elitism ------------------------------- *)
\* this transition is p's step computing its next population
StepComputes(p) == pc[p] = "s_crit1" /\ pc'[p] = "s_score"

\* child is parent with at most one mutation applied: a copy, one instruction
\* replaced or tweaked, one inserted or one deleted
OneMutation(parent, child) ==
  \/ child = parent
  \/ /\ Len(child) = Len(parent)
     /\ Cardinality({i \in DOMAIN parent : child[i] # parent[i]}) = 1
  \/ /\ Len(child) = Len(parent) + 1
     /\ \E idx \in 0..Len(parent) : VecRemove(child, idx) = parent
  \/ /\ Len(child) + 1 = Len(parent)
     /\ \E idx \in 0..Len(child) : VecRemove(parent, idx) = child

\* the population p's step computes has the current population's size, starts with
\* the run's best_genome and continues with members that are copies of current
\* members with at most one mutation applied
NextPopulationElitist(p) ==
  StepComputes(p) =>
    LET run == runs[loc[p].run_id]
        np == loc'[p].new_population
    IN  /\ Len(np) = Len(run.population)
        /\ np[1] = run.best_genome
        /\ \A i \in 2..Len(np) :
             \E j \in DOMAIN run.population :
               OneMutation(run.population[j].instructions, np[i].instructions)

\* no other step on p's run has committed since p's step computed, and none is in
\* flight
StepDidNotOverlap(p) ==
  /\ runs[loc[p].run_id].generation = loc[p].pre[1].generation
  /\ \A q \in Procs \ {p} : ~(InFlight(q) /\ loc[q].run_id = loc[p].run_id)

\* C23: the population computed by next_population has exactly the current
\* population's size, its first member is the run's best_genome at the time of
\* computation, unmodified, and every other member is a copy of a current member
\* with at most one mutation applied; so after a committed step that did not
\* overlap another step on the run, the new population contains the best genome
\* the run had before the commit (the previous generation's).
C23_Elitism ==
  [][\A p \in Procs :
       /\ NextPopulationElitist(p)
       /\ (StepCommits(p) /\ StepDidNotOverlap(p)) =>
            \E i \in DOMAIN runs'[loc[p].run_id].population :
              runs'[loc[p].run_id].population[i] = runs[loc[p].run_id].best_genome]_vars

\* the part of C23 about the computation alone
ElitismAtCompute == [][\A p \in Procs : NextPopulationElitist(p)]_vars

(* ------------------------------ progress ------------------------------- *)
\* the seeds of the runs created in the progress check
LiveMaxSeed == 1

LiveCfgs == {cfg \in Cfgs : cfg.seed <= LiveMaxSeed}

\* a request arrives
Arrives(p) ==
  \/ \E cfg \in LiveCfgs : CreateStart(p, cfg)
  \/ \E id \in RunIds : StepStart(p, id)
  \/ \E id \in RunIds : \E n \in 2..MaxAdvance : AdvanceStart(p, id, n)
  \/ \E id \in RunIds : SnapshotStart(p, id)
  \/ \E id \in RunIds : HistoryStart(p, id)

\* a step of a started operation: the scorer call returns, with an answer or with
\* a failure, runs.lock().await returns, or the code under the lock runs
Proceeds(p) ==
  \/ ScoreFailed(p)
  \/ CreateScored(p)
  \/ StepScored(p)
  \/ Acquire(p)
  \/ CreateInsert(p)
  \/ StepCompute(p)
  \/ StepCommit(p)
  \/ SnapshotRead(p)
  \/ HistoryRead(p)
  \/ HistoryTask(p)

NextLive ==
  \E p \in Procs :
    \/ Arrives(p)
    \/ Proceeds(p)
    \/ Abort(p)

\* the labels at which a task awaits runs.lock(), holds the lock, awaits the scorer
LockWait == {"c_lock", "s_lock1", "s_lock2", "g_lock", "h_lock1", "h_lock2"}
LockHeld == {"c_crit", "s_crit1", "s_crit2", "g_crit", "h_crit1", "h_crit2"}
ScoreWait == {"c_score", "s_score"}

\* p's operation can take a step: its scorer call is out, the lock it awaits is
\* free, or it holds the lock (the states in which Proceeds(p) is enabled)
Ready(p) ==
  \/ pc[p] \in ScoreWait
  \/ pc[p] \in LockWait /\ lock = NoProc
  \/ pc[p] \in LockHeld /\ lock = p

\* p's operation takes a step: a step that moves a ready p to another label (among
\* the steps of NextLive these are Proceeds(p) and Abort(p))
Moves(p) ==
  /\ Ready(p)
  /\ \E l \in (LockWait \cup LockHeld \cup ScoreWait \cup {"idle"}) \ {pc[p]} :
       pc' = [pc EXCEPT ![p] = l]

\* fair scheduling: the runtime polls every ready task again, the mutex hands the
\* free lock to a waiting task, and every scorer call returns (or its request is
\* dropped)
Fairness == \A p \in Procs : WF_pc(Moves(p))

SpecLive == Init /\ [][NextLive]_vars /\ Fairness

\* Ready and Moves are the enabling condition and the steps of Proceeds and Abort
ReadyIsEnabled == \A p \in Procs : Ready(p) <=> ENABLED Proceeds(p)

MovesIsStep ==
  [][\A p \in Procs : (Moves(p) /\ pc' # pc) <=> (Proceeds(p) \/ Abort(p))]_vars

\* no task asks for the lock while it holds it
NoReentry == \A p \in Procs : pc[p] \in LockWait => lock # p

\* C24: under fair scheduling, with every scorer call returning, every started
\* create, step, advance, snapshot and history operation eventually completes, the
\* registry lock, once held, is eventually released, and no operation ever needs
\* the lock while already holding it.
C24_ProgressWithoutDeadlock ==
  /\ []NoReentry
  /\ \A p \in Procs : (pc[p] # "idle") ~> (pc[p] = "idle")
  /\ (lock # NoProc) ~> (lock = NoProc)

\* C24 witness: a step that has its scores awaits the lock for its commit while
\* another task holds it
C24_WaitsWhileHeld ==
  \E p, q \in Procs :
    /\ p # q
    /\ pc[p] = "s_lock2"
    /\ lock = q
    /\ pc[q] \in LockHeld
====
